---- MODULE Spec2Model ----
(***************************************************************************)
(* Transition-coordination core of the AI radio-jockey extension:          *)
(*   - the injected script (Track Observer + Metadata Interception Trap)   *)
(*   - the content script (Transition Coordinator + Prefetch Scheduler)    *)
(* Both run on one cooperative event loop; a DOM event dispatched with     *)
(* document.dispatchEvent runs its listeners synchronously, so every       *)
(* action below is one event-loop turn including all nested handlers.      *)
(*                                                                         *)
(* Text is modelled as a sequence of tokens: "" is <<>>, "A" is <<"A">>    *)
(* and "A::B" is <<"A", "::", "B">>, so that template-literal              *)
(* concatenation and String.split('::') are computed, not assumed.         *)
(* An optional value (T | null) is <<>> for null and <<v>> for a value.    *)
(***************************************************************************)
EXTENDS Integers, Sequences, FiniteSets, TLC

(* ------------------------------ bounds -------------------------------- *)

\* Largest number of announcements awaited at once (resumeHandler listeners).
MaxPending == 2

\* Pool of timer ids handed out by setTimeout.
MaxTimerIds == 3

\* Largest number of 5-second safety timeouts pending at once.
MaxSafety == 1

\* Longest queue (main items and automix items together) the Observer is
\* run on.
MaxQueueLen == 2

(* --------------------------- value universe --------------------------- *)

None == <<>>
Some(v) == <<v>>

\* optional chaining o?.title : undefined when o is null
Undefined == <<"undefined">>

EmptyText == <<>>
SEP == "::"

TA == <<"A">>
TB == <<"B">>
TAB == <<"A", "::", "B">>
UnknownTitle == <<"Unknown Title">>
UnknownArtist == <<"Unknown Artist">>
Unknown == <<"Unknown">>
ArtX == <<"X">>

\* now-playing metadata values a page assigns (null, or title/artist)
MetaNull == None
MetaEmpty == Some([title |-> EmptyText, artist |-> EmptyText])
MetaA == Some([title |-> TA, artist |-> ArtX])
MetaAB == Some([title |-> TAB, artist |-> EmptyText])

\* what the player API yields during one read of getPlayerStatus:
\* it throws, or getVideoData() gives a title/author (empty when missing)
ReadThrows == [throws |-> TRUE, title |-> EmptyText, author |-> EmptyText]
ReadNoData == [throws |-> FALSE, title |-> EmptyText, author |-> EmptyText]
ReadA == [throws |-> FALSE, title |-> TA, author |-> ArtX]

\* a queue entry: its envelope shape, the selected flag and the text runs
Item(shape, selected, title, artist) ==
    [shape |-> shape, selected |-> selected, title |-> title, artist |-> artist]

\* queue states of the host page: no store; A playing, B next; B playing
\* with an automix entry A (no byline) next
QueueMissing == [store |-> "missing", items |-> <<>>, automixItems |-> <<>>]
QueueAB ==
    [store |-> "ok",
     items |-> << Item("direct", TRUE, TA, ArtX), Item("wrapped", FALSE, TB, ArtX) >>,
     automixItems |-> <<>>]
QueueBA ==
    [store |-> "ok",
     items |-> << Item("direct", FALSE, TA, ArtX), Item("direct", TRUE, TB, ArtX) >>,
     automixItems |-> << Item("wrapped", FALSE, TA, EmptyText) >>]

\* the store is there but getState() throws
QueueThrows == [store |-> "throws", items |-> <<>>, automixItems |-> <<>>]

\* the text runs an entry can carry: both, no byline, no title
ItemTexts ==
    { [title |-> TA, artist |-> ArtX],
      [title |-> TB, artist |-> EmptyText],
      [title |-> EmptyText, artist |-> ArtX] }

\* the entries of a queue: either envelope shape, selected or not, or an
\* entry of another kind, which has no renderer (and so no flag and no text)
QueueItems ==
    { Item(sh, sel, x.title, x.artist) :
        sh \in {"direct", "wrapped"}, sel \in BOOLEAN, x \in ItemTexts }
      \cup { Item("other", FALSE, EmptyText, EmptyText) }

SeqsUpTo(S, n) == UNION { [1..k -> S] : k \in 0..n }

\* every queue state of at most MaxQueueLen entries
AllQueues ==
    { QueueMissing, QueueThrows }
      \cup { [store |-> "ok", items |-> qs[1], automixItems |-> qs[2]] :
               qs \in { x \in SeqsUpTo(QueueItems, MaxQueueLen)
                                \X SeqsUpTo(QueueItems, MaxQueueLen) :
                          Len(x[1]) + Len(x[2]) <= MaxQueueLen } }

\* A host page: what it assigns to the metadata, what its player API returns,
\* which queue states it goes through, whether it inserts/removes/pauses the
\* media element, and whether the user changes the settings during the
\* session.  Every behaviour runs against one host.  The first host moves
\* the media element and has a player API that can fail; the second goes
\* through every queue state; on the third the settings change while the
\* queue changes.
HostPage(mv, pr, qs, v0, vs, sc) ==
    [metadataValues |-> mv, playerReads |-> pr, queues |-> qs,
     video0 |-> v0, videoMoves |-> vs, settingsChange |-> sc]

\* the page the Observer's reads are run on: any queue, a player that answers
QueueHost == HostPage({}, {ReadA}, AllQueues, "none", {}, FALSE)

Hosts ==
    { HostPage({MetaNull, MetaEmpty, MetaA, MetaAB}, {ReadThrows, ReadNoData, ReadA},
               {QueueAB}, "none", {"none", "paused"}, FALSE),
      HostPage({MetaA, MetaAB}, {ReadA},
               {QueueMissing, QueueAB, QueueBA}, "paused", {}, FALSE),
      HostPage({MetaAB}, {ReadA},
               {QueueAB, QueueBA}, "paused", {}, TRUE) }

(* ------------------------------- state -------------------------------- *)

VARIABLES
    \* host page
    host,               \* the host page of this session
    video,              \* "none" | "paused" | "playing": the <video> element
    queue,              \* the host's queue store
    \* injected script (Trap)
    isLocked,
    currentTitle,
    lastUpcomingTitle,
    metadata,           \* _metadata
    \* content script (Coordinator)
    currentSong,
    upcomingSong,
    processedPairs,
    isEnabled,
    prefetchTimer,      \* handle of the last timer set, 0 when null
    resumeHandlers,     \* number of registered resumeHandler listeners,
                        \* each with a suspended handleSongChange behind it
    initDone,           \* init()'s storage callback has run
    \* runtime
    timers,             \* pending setTimeout callbacks of schedulePrefetch
    safetyTimers,       \* pending 5-second safety timeouts of triggerAnnounce
    \* observation
    log,                \* what the last turn did, in order
    prewarmCount,       \* PREWARM_RJ messages sent so far, per pair key
    sinceResume,        \* "none" | "resumed" | "changed"
    lastTrigger,        \* current title of the last TRIGGER published
    earlyUpdate         \* current title of an UPDATE published since then
                        \* with another title than that TRIGGER's

vars == << host, video, queue, isLocked, currentTitle, lastUpcomingTitle, metadata,
           currentSong, upcomingSong, processedPairs, isEnabled, prefetchTimer,
           resumeHandlers, initDone, timers, safetyTimers, log, prewarmCount,
           sinceResume, lastTrigger, earlyUpdate >>

\* the mutable state as one record, threaded through the nested handlers
Cur ==
    [ video |-> video, queue |-> queue, isLocked |-> isLocked,
      currentTitle |-> currentTitle, lastUpcomingTitle |-> lastUpcomingTitle,
      metadata |-> metadata, currentSong |-> currentSong,
      upcomingSong |-> upcomingSong, processedPairs |-> processedPairs,
      isEnabled |-> isEnabled, prefetchTimer |-> prefetchTimer,
      resumeHandlers |-> resumeHandlers, initDone |-> initDone,
      timers |-> timers, safetyTimers |-> safetyTimers, log |-> <<>>, prewarmCount |-> prewarmCount,
      sinceResume |-> sinceResume, lastTrigger |-> lastTrigger,
      earlyUpdate |-> earlyUpdate ]

Commit(s) ==
    /\ host' = host
    /\ video' = s.video
    /\ queue' = s.queue
    /\ isLocked' = s.isLocked
    /\ currentTitle' = s.currentTitle
    /\ lastUpcomingTitle' = s.lastUpcomingTitle
    /\ metadata' = s.metadata
    /\ currentSong' = s.currentSong
    /\ upcomingSong' = s.upcomingSong
    /\ processedPairs' = s.processedPairs
    /\ isEnabled' = s.isEnabled
    /\ prefetchTimer' = s.prefetchTimer
    /\ resumeHandlers' = s.resumeHandlers
    /\ initDone' = s.initDone
    /\ timers' = s.timers
    /\ safetyTimers' = s.safetyTimers
    /\ log' = s.log
    /\ prewarmCount' = s.prewarmCount
    /\ sinceResume' = s.sinceResume
    /\ lastTrigger' = s.lastTrigger
    /\ earlyUpdate' = s.earlyUpdate

\* sequencing: evaluate the state e, then continue with F on it
Then(e, F(_)) == CHOOSE r \in { F(v) : v \in {e} } : TRUE

\* one entry of the turn's log
Eff(ev, data) == [ev |-> ev, data |-> data]
Emit(s, ev, data) == [s EXCEPT !.log = Append(@, Eff(ev, data))]

(* -------------------------- Track Observer ---------------------------- *)

\* `${a}::${b}`
PairKey(a, b) == a \o <<SEP>> \o b

\* String.prototype.split('::')
RECURSIVE split(_)
split(k) ==
    IF \A i \in 1..Len(k) : k[i] # SEP
    THEN << k >>
    ELSE LET i == CHOOSE j \in 1..Len(k) :
                     k[j] = SEP /\ \A h \in 1..(j - 1) : k[h] # SEP
         IN << SubSeq(k, 1, i - 1) >> \o split(SubSeq(k, i + 1, Len(k)))

\* item.playlistPanelVideoRenderer || item.playlistPanelVideoWrapperRenderer?...
unwrap(item) ==
    IF item.shape \in {"direct", "wrapped"} THEN Some(item) ELSE None

\* x || fallback on strings: the empty string is falsy
OrText(x, fallback) == IF x = EmptyText THEN fallback ELSE x

getNextSongData(q) ==
    IF q.store # "ok" THEN None
    ELSE
      LET fullQueue == q.items \o q.automixItems
          sel == { i \in 1..Len(fullQueue) :
                     unwrap(fullQueue[i]) # None /\ fullQueue[i].selected }
      IN IF Len(fullQueue) = 0 THEN None
         ELSE IF sel = {} THEN None
         ELSE LET currentIndex == CHOOSE i \in sel : \A j \in sel : i <= j
              IN IF currentIndex < Len(fullQueue)
                    /\ unwrap(fullQueue[currentIndex + 1]) # None
                 THEN LET nextData == fullQueue[currentIndex + 1]
                      IN Some([title |-> OrText(nextData.title, UnknownTitle),
                               artist |-> OrText(nextData.artist, UnknownArtist)])
                 ELSE None

\* metadata?.title || videoData?.title || ""
getPlayerStatus(s, rd) ==
    IF rd.throws THEN None
    ELSE LET mt == IF s.metadata = None THEN EmptyText ELSE s.metadata[1].title
             ma == IF s.metadata = None THEN EmptyText ELSE s.metadata[1].artist
         IN Some([title |-> OrText(mt, rd.title),
                  artist |-> OrText(ma, rd.author)])

\* the outcome of a call: it threw, or it returned v
Thrown == [threw |-> TRUE, value |-> None]
Returned(v) == [threw |-> FALSE, value |-> v]

\* getNextSongData of src/injection/injector.ts: the same scan without the
\* try/catch
injector_getNextSongData(q) ==
    IF q.store = "throws" THEN Thrown
    ELSE IF q.store # "ok" THEN Returned(None)
    ELSE
      LET fullQueue == q.items \o q.automixItems
          sel == { i \in 1..Len(fullQueue) :
                     unwrap(fullQueue[i]) # None /\ fullQueue[i].selected }
      IN IF Len(fullQueue) = 0 THEN Returned(None)
         ELSE IF sel = {} THEN Returned(None)
         ELSE LET currentIndex == CHOOSE i \in sel : \A j \in sel : i <= j
              IN IF currentIndex < Len(fullQueue)
                    /\ unwrap(fullQueue[currentIndex + 1]) # None
                 THEN LET nextData == fullQueue[currentIndex + 1]
                      IN Returned(Some(
                           [title |-> OrText(nextData.title, UnknownTitle),
                            artist |-> OrText(nextData.artist, UnknownArtist)]))
                 ELSE Returned(None)

\* getPlayerStatus of src/injection/injector.ts: no try/catch either
injector_getPlayerStatus(rd) ==
    IF rd.throws THEN Thrown
    ELSE Returned(Some([title |-> OrText(rd.title, UnknownTitle),
                        artist |-> OrText(rd.author, UnknownArtist)]))

\* the REQUEST_STATUS listener of src/injection/injector.ts; an exception
\* leaves the listener before anything is dispatched
onRequestStatus(s, rd) ==
    LET current == injector_getPlayerStatus(rd)
        upcoming == injector_getNextSongData(s.queue)
    IN IF current.threw \/ upcoming.threw
       THEN Emit(s, "uncaught", None)
       ELSE Emit(s, "RETURN_STATUS",
                 [current |-> current.value, upcoming |-> upcoming.value])

\* o?.title
TitleOf(o) == IF o = None THEN Undefined ELSE o[1].title

\* o?.title || ''
TitleOrEmpty(o) == IF o = None THEN EmptyText ELSE o[1].title

(* ------------------- Trap: Resume listener, play override -------------- *)

\* mutant: the Resume listener restarts playback but leaves the lock engaged
onResumeKeepsLock(s) ==
    Then([s EXCEPT !.sinceResume = "resumed"],
         LAMBDA s1 :
            IF s1.video # "none"
            THEN Emit([s1 EXCEPT !.video = "playing"], "realPlay", None)
            ELSE s1)

\* document.addEventListener(EVENT_RESUME, ...) of the injected script
onResume(s) ==
    Then([s EXCEPT !.isLocked = FALSE, !.sinceResume = "resumed"],
         LAMBDA s1 :
            IF s1.video # "none"
            THEN Emit([s1 EXCEPT !.video = "playing"], "realPlay", None)
            ELSE s1)

\* document.dispatchEvent(new CustomEvent(EVENT_RESUME))
dispatchResume(s) == onResume(Emit(s, "Resume", None))

\* mutant: the override forwards to the real play without testing the lock
playOverrideUnguarded(s) ==
    Emit([s EXCEPT !.video = "playing"], "realPlay", None)

\* mutant: a suppressed play() call releases the lock for the next call
playOverrideReleases(s) ==
    IF s.isLocked
    THEN Emit([s EXCEPT !.isLocked = FALSE], "playBlocked", None)
    ELSE Emit([s EXCEPT !.video = "playing"], "realPlay", None)

\* HTMLMediaElement.prototype.play override, called on the media element
playOverride(s) ==
    IF s.isLocked
    THEN Emit(s, "playBlocked", None)
    ELSE Emit([s EXCEPT !.video = "playing"], "realPlay", None)

(* ---------------------- Coordinator: prefetch -------------------------- *)

FreeTimerIds(s) == (1..MaxTimerIds) \ {t.id : t \in s.timers}

\* clearTimeout(id): cancels the timer if it is still pending
clearTimeout(s, id) ==
    Emit([s EXCEPT !.timers = {t \in @ : t.id # id}],
         "clearTimeout", {t.pairKey : t \in {u \in s.timers : u.id = id}})

\* setTimeout(() => performPrefetch(pairKey, currentSong!, upcomingSong!), 15000)
setTimeout(s, pairKey) ==
    LET id == CHOOSE i \in FreeTimerIds(s) : \A j \in FreeTimerIds(s) : i <= j
    IN Emit([s EXCEPT !.timers = @ \cup {[id |-> id, pairKey |-> pairKey]},
                      !.prefetchTimer = id],
            "setTimeout", pairKey)

\* mutant: a new timer is set without clearing the pending one
schedulePrefetchNoClear(s) ==
    IF s.currentSong = None \/ s.upcomingSong = None
    THEN s
    ELSE setTimeout(s, PairKey(s.currentSong[1].title, s.upcomingSong[1].title))

\* mutant: the missing-info test is gone; the key is built with ?.title
schedulePrefetchUnchecked(s) ==
    Then(IF s.prefetchTimer # 0 THEN clearTimeout(s, s.prefetchTimer) ELSE s,
         LAMBDA s1 :
            setTimeout(s1, PairKey(TitleOf(s1.currentSong), TitleOf(s1.upcomingSong))))

schedulePrefetch(s) ==
    Then(IF s.prefetchTimer # 0 THEN clearTimeout(s, s.prefetchTimer) ELSE s,
         LAMBDA s1 :
            IF s1.currentSong = None \/ s1.upcomingSong = None
            THEN s1
            ELSE setTimeout(s1, PairKey(s1.currentSong[1].title,
                                        s1.upcomingSong[1].title)))

Bump(f, k) == IF k \in DOMAIN f THEN [f EXCEPT ![k] = @ + 1] ELSE f @@ (k :> 1)

\* mutant: the processedPairs test is missing
performPrefetchNoDedup(s, pairKey, cSong, uSong) ==
    IF s.currentSong = None \/ s.upcomingSong = None THEN s
    ELSE IF PairKey(s.currentSong[1].title, s.upcomingSong[1].title) # pairKey THEN s
    ELSE Emit([s EXCEPT !.processedPairs = @ \cup {pairKey},
                        !.prewarmCount = Bump(@, pairKey)],
              "PREWARM_RJ",
              [pairKey |-> pairKey,
               oldSongTitle |-> cSong[1].title, oldArtist |-> cSong[1].artist,
               newSongTitle |-> uSong[1].title, newArtist |-> uSong[1].artist])

\* mutant: the live pair is not compared with the timer's pair key
performPrefetchNoRevalidate(s, pairKey, cSong, uSong) ==
    IF s.currentSong = None \/ s.upcomingSong = None THEN s
    ELSE IF pairKey \in s.processedPairs THEN s
    ELSE Emit([s EXCEPT !.processedPairs = @ \cup {pairKey},
                        !.prewarmCount = Bump(@, pairKey)],
              "PREWARM_RJ",
              [pairKey |-> pairKey,
               oldSongTitle |-> cSong[1].title, oldArtist |-> cSong[1].artist,
               newSongTitle |-> uSong[1].title, newArtist |-> uSong[1].artist])

performPrefetch(s, pairKey, cSong, uSong) ==
    IF s.currentSong = None \/ s.upcomingSong = None THEN s
    ELSE IF PairKey(s.currentSong[1].title, s.upcomingSong[1].title) # pairKey THEN s
    ELSE IF pairKey \in s.processedPairs THEN s
    ELSE Emit([s EXCEPT !.processedPairs = @ \cup {pairKey},
                        !.prewarmCount = Bump(@, pairKey)],
              "PREWARM_RJ",
              [pairKey |-> pairKey,
               oldSongTitle |-> cSong[1].title, oldArtist |-> cSong[1].artist,
               newSongTitle |-> uSong[1].title, newArtist |-> uSong[1].artist])

(* ------------------- Coordinator: song change -------------------------- *)

\* mutant: the safety timeout publishes Resume
safetyTimeoutResumes(s) == dispatchResume(s)

\* the callback of triggerAnnounce's 5-second safety timeout: its body is
\* comments only
safetyTimeout(s) == s

\* the synchronous part of triggerAnnounce: register resumeHandler, send the
\* message, start the safety timeout; the promise stays pending until
\* TTS_ENDED
triggerAnnounce(s, pairKey) ==
    Emit([s EXCEPT !.resumeHandlers = @ + 1, !.safetyTimers = @ + 1],
         "SONG_ABOUT_TO_END",
         [pairKey |-> pairKey,
          currentSongTitle |-> split(pairKey)[1],
          currentSongArtist |-> Unknown,
          upcomingSongTitle |-> split(pairKey)[2],
          upcomingSongArtist |-> s.currentSong[1].artist])

\* mutant: prevSong is read after currentSong has been overwritten
handleSongChangeStalePrev(s, detail) ==
    IF ~s.isEnabled THEN dispatchResume(s)
    ELSE
      Then([s EXCEPT !.currentSong = detail.currentSong,
                     !.upcomingSong = detail.upcomingSong],
           LAMBDA s1 :
              IF s1.currentSong # None
              THEN triggerAnnounce(s1, PairKey(s1.currentSong[1].title,
                                               s1.currentSong[1].title))
              ELSE Then(dispatchResume(s1), schedulePrefetch))

\* mutant: the isEnabled test is missing
handleSongChangeAlwaysOn(s, detail) ==
    Then([s EXCEPT !.currentSong = detail.currentSong,
                   !.upcomingSong = detail.upcomingSong],
         LAMBDA s1 :
            IF s.currentSong # None /\ s1.currentSong # None
            THEN triggerAnnounce(s1, PairKey(s.currentSong[1].title,
                                             s1.currentSong[1].title))
            ELSE Then(dispatchResume(s1), schedulePrefetch))

\* handleSongChange up to its first suspension point
handleSongChange(s, detail) ==
    IF ~s.isEnabled THEN dispatchResume(s)
    ELSE
      Then([s EXCEPT !.currentSong = detail.currentSong,
                     !.upcomingSong = detail.upcomingSong],
           LAMBDA s1 :
              IF s.currentSong # None /\ s1.currentSong # None
              THEN triggerAnnounce(s1, PairKey(s.currentSong[1].title,
                                               s1.currentSong[1].title))
              ELSE Then(dispatchResume(s1), schedulePrefetch))

\* mutant: an UPDATE with another current title only stores the tracks
onUpdateStoresOnly(s, detail) ==
    IF TitleOf(detail.currentSong) # TitleOf(s.currentSong)
    THEN Then([s EXCEPT !.currentSong = detail.currentSong,
                        !.upcomingSong = detail.upcomingSong],
              schedulePrefetch)
    ELSE IF TitleOf(s.upcomingSong) # TitleOf(detail.upcomingSong)
         THEN Then([s EXCEPT !.upcomingSong = detail.upcomingSong], schedulePrefetch)
         ELSE s

\* mutant: the new upcoming track is stored but the prefetch is not rescheduled
onUpdateNoReschedule(s, detail) ==
    IF TitleOf(detail.currentSong) # TitleOf(s.currentSong)
    THEN handleSongChange(s, detail)
    ELSE IF TitleOf(s.upcomingSong) # TitleOf(detail.upcomingSong)
         THEN [s EXCEPT !.upcomingSong = detail.upcomingSong]
         ELSE s

\* document.addEventListener(EVENT_UPDATE, ...)
onUpdate(s, detail) ==
    IF TitleOf(detail.currentSong) # TitleOf(s.currentSong)
    THEN handleSongChange(s, detail)
    ELSE IF TitleOf(s.upcomingSong) # TitleOf(detail.upcomingSong)
         THEN Then([s EXCEPT !.upcomingSong = detail.upcomingSong], schedulePrefetch)
         ELSE s

\* mutant: the initial data is handled like a song change
onReturnDataAsSongChange(s, detail) == handleSongChange(s, detail)

\* document.addEventListener(EVENT_RETURN_DATA, ...)
onReturnData(s, detail) ==
    Then([s EXCEPT !.currentSong = detail.currentSong,
                   !.upcomingSong = detail.upcomingSong],
         LAMBDA s1 :
            IF s1.currentSong # None /\ s1.upcomingSong # None
            THEN schedulePrefetch(s1)
            ELSE s1)

(* --------------------------- Trap: broadcast --------------------------- *)

\* the history of published events: the title of the last TRIGGER, and the
\* title of an UPDATE that came since with another title
Published(s, eventType, title) ==
    CASE eventType = "TRIGGER" ->
           [s EXCEPT !.lastTrigger = Some(title), !.earlyUpdate = None]
      [] eventType = "UPDATE" /\ s.lastTrigger # Some(title) ->
           [s EXCEPT !.earlyUpdate = Some(title)]
      [] OTHER -> s

\* document.dispatchEvent: the content script's listener runs synchronously
dispatchEvent(s, eventType, detail) ==
    Then(Emit(Published(s, eventType, detail.currentSong[1].title), eventType,
              [currentSong |-> detail.currentSong,
               upcomingSong |-> detail.upcomingSong,
               isLocked |-> s.isLocked]),
         LAMBDA s1 :
            CASE eventType = "TRIGGER" -> handleSongChange(s1, detail)
              [] eventType = "UPDATE" -> onUpdate(s1, detail)
              [] eventType = "RETURN_DATA" -> onReturnData(s1, detail))

broadcast(s, eventType, rd) ==
    LET cs == getPlayerStatus(s, rd)
        us == getNextSongData(s.queue)
    IN IF cs # None
       THEN Then(dispatchEvent(s, eventType,
                               [currentSong |-> cs, upcomingSong |-> us]),
                 LAMBDA s1 :
                    [s1 EXCEPT !.currentTitle = cs[1].title,
                               !.lastUpcomingTitle = TitleOrEmpty(us)])
       ELSE s

\* isLocked = true; video.pause()
lockAndPause(s) ==
    Then([s EXCEPT !.isLocked = TRUE,
                   !.sinceResume = IF @ = "resumed" THEN "changed" ELSE @],
         LAMBDA s1 :
            IF s1.video # "none"
            THEN Emit([s1 EXCEPT !.video = "paused"], "pause", None)
            ELSE s1)

\* the setter installed on mediaSession.metadata
metadataSetter(s, newValue, rd) ==
    Then([s EXCEPT !.metadata = newValue],
         LAMBDA s0 :
            IF newValue # None /\ newValue[1].title # s0.currentTitle
            THEN Then(lockAndPause(s0),
                      LAMBDA s1 : broadcast(s1, "TRIGGER", rd))
            ELSE s0)

\* the setInterval callback
pollTick(s, rd) ==
    IF TitleOrEmpty(getNextSongData(s.queue)) # s.lastUpcomingTitle
    THEN broadcast(s, "UPDATE", rd)
    ELSE s

(* --------------- Coordinator: completion signal TTS_ENDED -------------- *)

\* the global chrome.runtime.onMessage listener, registered at load
globalTtsListener(s) ==
    IF s.video = "paused" THEN dispatchResume(s) ELSE s

\* one resumeHandler: deregister, publish Resume, resolve
resumeHandler(s) == dispatchResume([s EXCEPT !.resumeHandlers = @ - 1])

RECURSIVE runResumeHandlers(_, _)
runResumeHandlers(s, n) ==
    IF n = 0 THEN s
    ELSE Then(resumeHandler(s), LAMBDA s1 : runResumeHandlers(s1, n - 1))

\* the handleSongChange continuations resumed by resolve(): schedulePrefetch()
RECURSIVE runContinuations(_, _)
runContinuations(s, n) ==
    IF n = 0 THEN s
    ELSE Then(schedulePrefetch(s), LAMBDA s1 : runContinuations(s1, n - 1))

\* mutant: a completion signal is consumed by the first awaited handler only
onTtsEndedCompletesOne(s) ==
    LET n == IF s.resumeHandlers > 0 THEN 1 ELSE 0
    IN Then(globalTtsListener(s),
            LAMBDA s1 :
               Then(runResumeHandlers(s1, n),
                    LAMBDA s2 : runContinuations(s2, n)))

\* a TTS_ENDED message: the global listener, then every registered
\* resumeHandler, then the continuations their resolve() released
onTtsEnded(s) ==
    Then(globalTtsListener(s),
         LAMBDA s1 :
            Then(runResumeHandlers(s1, s.resumeHandlers),
                 LAMBDA s2 : runContinuations(s2, s.resumeHandlers)))

(* ------------------------------ actions -------------------------------- *)

\* a turn of the event loop begins: the log restarts with the event
Start(s, ev, data) == Emit(s, ev, data)

InitOn(h) ==
    /\ host = h
    /\ video = host.video0
    /\ queue \in host.queues
    /\ isLocked = FALSE
    /\ currentTitle = EmptyText
    /\ lastUpcomingTitle = EmptyText
    /\ metadata = None
    /\ currentSong = None
    /\ upcomingSong = None
    /\ processedPairs = {}
    /\ isEnabled = TRUE
    /\ prefetchTimer = 0
    /\ resumeHandlers = 0
    /\ initDone = FALSE
    /\ timers = {}
    /\ safetyTimers = 0
    /\ log = <<>>
    /\ prewarmCount = << >>
    /\ sinceResume = "none"
    /\ lastTrigger = None
    /\ earlyUpdate = None

Init == \E h \in Hosts : InitOn(h)

\* the page assigns navigator.mediaSession.metadata
SetMetadata ==
    \E newValue \in host.metadataValues, rd \in host.playerReads :
        \E s \in {metadataSetter(Start(Cur, "setMetadata", None), newValue, rd)} :
            /\ s.resumeHandlers <= MaxPending
            /\ s.safetyTimers <= MaxSafety
            /\ Commit(s)

\* the page (or the player) calls play() on the media element
PlayCall ==
    /\ video # "none"
    /\ \E s \in {playOverride(Start([Cur EXCEPT !.sinceResume = "none"],
                                     "play", sinceResume))} :
          Commit(s)

\* the 2-second poll, with what the player API answers during it
PollWith(rd) ==
    \E s \in {pollTick(Start(Cur, "poll", None), rd)} :
        /\ s.resumeHandlers <= MaxPending
        /\ s.safetyTimers <= MaxSafety
        /\ Commit(s)

PollTick == \E rd \in host.playerReads : PollWith(rd)

\* a TTS_ENDED runtime message arrives
TtsEnded ==
    \E s \in {onTtsEnded(Start(Cur, "TTS_ENDED", None))} : Commit(s)

\* a 15-second prefetch timer fires
PrefetchTimerFire ==
    \E t \in timers :
        \E s \in {performPrefetch(Start([Cur EXCEPT !.timers = @ \ {t}],
                                        "timerFire", t.pairKey),
                                  t.pairKey, currentSong, upcomingSong)} :
            Commit(s)

\* a 5-second safety timeout of triggerAnnounce fires
SafetyTimerFire ==
    /\ safetyTimers > 0
    /\ \E s \in {safetyTimeout(Start([Cur EXCEPT !.safetyTimers = @ - 1],
                                      "safetyTimer", None))} :
          Commit(s)

\* init(): the storage callback sets isEnabled and requests the initial data
InitCallback ==
    /\ ~initDone
    /\ \E en \in (IF host.settingsChange THEN BOOLEAN ELSE {TRUE}), rd \in host.playerReads :
          \E s \in {broadcast(Start([Cur EXCEPT !.initDone = TRUE, !.isEnabled = en],
                                      "REQUEST_DATA", None),
                                "RETURN_DATA", rd)} :
              Commit(s)

\* chrome.storage.onChanged: the user toggles the extension
StorageChanged ==
    \E en \in BOOLEAN :
        /\ host.settingsChange
        /\ en # isEnabled
        /\ Commit(Start([Cur EXCEPT !.isEnabled = en], "storageChanged", None))

\* the host page changes its queue
HostQueueChange ==
    \E q \in host.queues :
        /\ q # queue
        /\ Commit(Start([Cur EXCEPT !.queue = q], "hostQueue", None))

\* the host page inserts, removes or pauses its media element
HostVideoChange ==
    \E v \in host.videoMoves :
        /\ v # video
        /\ Commit(Start([Cur EXCEPT !.video = v], "hostVideo", None))

Next ==
    \/ SetMetadata
    \/ PlayCall
    \/ PollTick
    \/ TtsEnded
    \/ PrefetchTimerFire
    \/ SafetyTimerFire
    \/ InitCallback
    \/ StorageChanged
    \/ HostQueueChange
    \/ HostVideoChange

Spec == Init /\ [][Next]_vars

\* The Observer's reads on every queue state: the data request answered by
\* the injected script, and the status request answered by the script of
\* src/injection.
RequestStatus ==
    \E rd \in host.playerReads :
        \E s \in {onRequestStatus(Start(Cur, "REQUEST_STATUS", None), rd)} :
            Commit(s)

ObserverNext ==
    \/ InitCallback
    \/ RequestStatus

ObserverSpec == InitOn(QueueHost) /\ [][ObserverNext]_vars

\* The external service answers every SONG_ABOUT_TO_END with a TTS_ENDED, and
\* the event loop runs the poll and the due timers.
TtsEndedAwaited == resumeHandlers > 0 /\ TtsEnded

\* a poll during which the player API answers
PollTickAnswered == \E rd \in host.playerReads : ~rd.throws /\ PollWith(rd)

LiveSpec ==
    /\ Spec
    /\ WF_vars(TtsEndedAwaited)
    /\ WF_vars(PollTickAnswered)
    /\ WF_vars(PrefetchTimerFire)
    /\ WF_vars(SafetyTimerFire)

\* The event loop alone: the external service may never answer.
LoopSpec ==
    /\ Spec
    /\ WF_vars(PollTickAnswered)
    /\ WF_vars(PrefetchTimerFire)
    /\ WF_vars(SafetyTimerFire)

(* ------------------------- reading the log ----------------------------- *)

\* the event that started the turn
Stim(l) == IF Len(l) > 0 THEN l[1].ev ELSE "init"
Has(l, ev) == \E i \in 1..Len(l) : l[i].ev = ev
Count(l, ev) == Cardinality({i \in 1..Len(l) : l[i].ev = ev})
Entry(l, ev) == l[CHOOSE i \in 1..Len(l) : l[i].ev = ev].data

TypeOK ==
    /\ video \in {"none", "paused", "playing"}
    /\ isLocked \in BOOLEAN
    /\ resumeHandlers \in 0..MaxPending
    /\ safetyTimers \in 0..MaxSafety
    /\ Cardinality(timers) <= MaxTimerIds

(* ------------------------------ claims --------------------------------- *)

\* the mutable state of the Coordinator
coordinatorVars ==
    << currentSong, upcomingSong, processedPairs, isEnabled, prefetchTimer,
       resumeHandlers, timers, prewarmCount >>

\* C1: a play() call intercepted while isLocked is true does not reach the
\* real play operation: it only reports success, and leaves the media element
\* and the lock as they were.
C1_LockExclusivity ==
    [][ (isLocked /\ Stim(log') = "play")
          => /\ log' = << Eff("play", sinceResume), Eff("playBlocked", None) >>
             /\ video' = video
             /\ isLocked' ]_vars

\* a play() call has just been suppressed while the media element is paused
C1_Witness ==
    /\ isLocked
    /\ video = "paused"
    /\ Stim(log) = "play"
    /\ Has(log, "playBlocked")

\* C2 as stated: the first play() call after a Resume reaches the real play
\* operation whatever happened between the Resume and the call.
C2_FirstPlayAfterResume ==
    [][ (sinceResume \in {"resumed", "changed"} /\ Stim(log') = "play")
          => Has(log', "realPlay") ]_vars

\* C2 amended: the first play() call after a Resume reaches the real play
\* operation provided no track-change metadata assignment (non-null, title
\* different from the last known title) happened between the Resume and the
\* call.
C2_FirstPlayAfterResumeNoChange ==
    [][ (sinceResume = "resumed" /\ Stim(log') = "play")
          => (Has(log', "realPlay") /\ video' = "playing") ]_vars

\* a first play() call after a Resume has just reached the real play
C2_Witness ==
    /\ log = << Eff("play", "resumed"), Eff("realPlay", None) >>
    /\ video = "playing"
    /\ currentSong # None

\* C3: under LiveSpec, whenever the lock is engaged it is eventually released.
C3_LockEventuallyReleased == isLocked ~> ~isLocked

\* C4: no pair key has more than one PREWARM_RJ request sent for it.
C4_PairDedup ==
    \A k \in DOMAIN prewarmCount : prewarmCount[k] <= 1

\* the timer of an already prefetched pair has fired again, with that pair
\* still the stored one, and sent nothing
C4_Witness ==
    /\ Stim(log) = "timerFire"
    /\ log[1].data \in processedPairs
    /\ currentSong # None /\ upcomingSong # None
    /\ PairKey(currentSong[1].title, upcomingSong[1].title) = log[1].data
    /\ ~Has(log, "PREWARM_RJ")
    /\ prewarmCount[log[1].data] = 1

\* the pair key of the stored tracks, None when one of them is absent
StoredPair(c, u) ==
    IF c = None \/ u = None THEN None ELSE Some(PairKey(c[1].title, u[1].title))

\* C5 as stated: at most one prefetch timer is pending; a newly set timer is
\* the only pending one (the superseded one is gone and cannot fire); and a
\* firing timer whose pair is still the stored pair sends exactly one
\* PREWARM_RJ for it.
C5_TimerSupersession ==
    /\ [](Cardinality(timers) <= 1)
    /\ [][ \A t \in timers' \ timers : timers' = {t} ]_vars
    /\ [][ (Stim(log') = "timerFire"
            /\ StoredPair(currentSong, upcomingSong) = Some(log'[1].data))
             => /\ Count(log', "PREWARM_RJ") = 1
                /\ Entry(log', "PREWARM_RJ").pairKey = log'[1].data ]_vars

\* C5 amended: as above, except that the firing timer sends exactly one
\* PREWARM_RJ only if its pair is not yet in processedPairs; for a pair
\* already in processedPairs it sends nothing.
C5_TimerSupersessionDedup ==
    /\ [](Cardinality(timers) <= 1)
    /\ [][ \A t \in timers' \ timers : timers' = {t} ]_vars
    /\ [][ (Stim(log') = "timerFire"
            /\ StoredPair(currentSong, upcomingSong) = Some(log'[1].data))
             => IF log'[1].data \in processedPairs
                THEN /\ ~Has(log', "PREWARM_RJ")
                     /\ processedPairs' = processedPairs
                ELSE /\ Count(log', "PREWARM_RJ") = 1
                     /\ Entry(log', "PREWARM_RJ").pairKey = log'[1].data
                     /\ processedPairs' = processedPairs \cup {log'[1].data} ]_vars

\* a pending timer for one pair has just been cancelled by the scheduling of
\* a timer for another pair, which is now the only pending one
C5_Witness ==
    /\ Has(log, "clearTimeout")
    /\ Has(log, "setTimeout")
    /\ Entry(log, "clearTimeout") # {}
    /\ Entry(log, "setTimeout") \notin Entry(log, "clearTimeout")
    /\ timers = {[id |-> prefetchTimer, pairKey |-> Entry(log, "setTimeout")]}

\* C6: a metadata assignment with a non-empty title different from the last
\* known title pauses the media element (if there is one), publishes exactly
\* one TRIGGER, delivered with the lock engaged and carrying the assigned
\* title and the Observer's upcoming read, and makes the assigned title the
\* last known title.
C6_TrackChangeSequence ==
    [][ (/\ Stim(log') = "setMetadata"
         /\ metadata' # None
         /\ metadata'[1].title # EmptyText
         /\ metadata'[1].title # currentTitle)
          => /\ (video # "none" => Has(log', "pause"))
             /\ Count(log', "TRIGGER") = 1
             /\ Entry(log', "TRIGGER").isLocked
             /\ Entry(log', "TRIGGER").currentSong # None
             /\ Entry(log', "TRIGGER").currentSong[1].title = metadata'[1].title
             /\ Entry(log', "TRIGGER").upcomingSong = getNextSongData(queue)
             /\ currentTitle' = metadata'[1].title ]_vars

\* C7: an assignment whose title equals that of the previous assignment
\* publishes no TRIGGER, does not pause and leaves the lock as it is.
C7_SameTitleInert ==
    [][ (/\ Stim(log') = "setMetadata"
         /\ metadata # None
         /\ metadata' # None
         /\ metadata'[1].title = metadata[1].title)
          => /\ ~Has(log', "TRIGGER")
             /\ ~Has(log', "pause")
             /\ isLocked' = isLocked ]_vars

\* Resume is published only in the turn of a completion signal or by
\* handleSongChange (on a TRIGGER or an UPDATE)
ResumeOnlyFrom ==
    Has(log, "Resume")
      => (Stim(log) = "TTS_ENDED" \/ Has(log, "TRIGGER") \/ Has(log, "UPDATE"))

\* what C8 says of one TRIGGER turn
OnTrigger(prev, cur, up, lg, handlers, handlersAfter) ==
    LET d == Entry(lg, "TRIGGER")
    IN /\ cur = d.currentSong
       /\ up = d.upcomingSong
       /\ IF prev # None
          THEN /\ Count(lg, "SONG_ABOUT_TO_END") = 1
               /\ Entry(lg, "SONG_ABOUT_TO_END").pairKey
                    = PairKey(prev[1].title, d.currentSong[1].title)
               /\ handlersAfter = handlers + 1
               /\ ~Has(lg, "Resume")
          ELSE /\ Has(lg, "Resume")
               /\ ~Has(lg, "SONG_ABOUT_TO_END")
               /\ handlersAfter = handlers

\* C8 as stated: every TRIGGER replaces the stored tracks by the payload and
\* either sends one announce request for previous::new and no Resume, or (no
\* previous track) publishes Resume at once and sends no request.
C8_TriggerHandling ==
    /\ []ResumeOnlyFrom
    /\ [][ Has(log', "TRIGGER")
             => OnTrigger(currentSong, currentSong', upcomingSong', log',
                          resumeHandlers, resumeHandlers') ]_vars

\* C8 amended: the same, for every TRIGGER handled while isEnabled is true.
C8_TriggerHandlingEnabled ==
    /\ []ResumeOnlyFrom
    /\ [][ (Has(log', "TRIGGER") /\ isEnabled)
             => OnTrigger(currentSong, currentSong', upcomingSong', log',
                          resumeHandlers, resumeHandlers') ]_vars

\* a TRIGGER with a previous track stored has just been handled: one announce
\* request is out, nothing was resumed and the lock is held
C8_Witness ==
    /\ Has(log, "TRIGGER")
    /\ Count(log, "SONG_ABOUT_TO_END") = 1
    /\ ~Has(log, "Resume")
    /\ isEnabled
    /\ isLocked
    /\ resumeHandlers = 1

\* a TRIGGER carrying both tracks has just been handled with the extension
\* enabled
TriggerHandled ==
    /\ Has(log, "TRIGGER")
    /\ isEnabled
    /\ Entry(log, "TRIGGER").upcomingSong # None

\* the prefetch of the stored pair is scheduled, or there is no stored pair
\* any more
PrefetchScheduled ==
    \/ StoredPair(currentSong, upcomingSong) = None
    \/ \E t \in timers : Some(t.pairKey) = StoredPair(currentSong, upcomingSong)

\* C9: under LoopSpec (no completion signal is promised), once a TRIGGER
\* carrying both tracks has been handled, a prefetch timer for the stored pair
\* new::upcoming is eventually pending.
C9_PrefetchAfterTrigger == TriggerHandled ~> PrefetchScheduled

\* an UPDATE whose current title is the stored one
SameTrackUpdate(lg, cur) ==
    /\ Has(lg, "UPDATE")
    /\ TitleOf(Entry(lg, "UPDATE").currentSong) = TitleOf(cur)

\* what every same-track UPDATE leaves alone
UpdateFrame ==
    /\ currentSong' = currentSong
    /\ processedPairs' = processedPairs
    /\ prewarmCount' = prewarmCount
    /\ resumeHandlers' = resumeHandlers
    /\ isLocked' = isLocked
    /\ ~Has(log', "Resume")
    /\ ~Has(log', "SONG_ABOUT_TO_END")

\* a same-track UPDATE with the stored upcoming title changes nothing
UpdateNoChange ==
    (/\ SameTrackUpdate(log', currentSong)
     /\ TitleOf(Entry(log', "UPDATE").upcomingSong) = TitleOf(upcomingSong))
      => /\ UNCHANGED coordinatorVars
         /\ Len(log') = 2

\* C10 as stated: a same-track UPDATE with another upcoming title stores the
\* new upcoming track and leaves exactly one pending timer, for
\* current::newUpcoming.
C10_UpdateReschedules ==
    /\ [][ (/\ SameTrackUpdate(log', currentSong)
            /\ TitleOf(Entry(log', "UPDATE").upcomingSong) # TitleOf(upcomingSong))
             => /\ upcomingSong' = Entry(log', "UPDATE").upcomingSong
                /\ upcomingSong' # None
                /\ timers' = {[id |-> prefetchTimer',
                               pairKey |-> PairKey(currentSong[1].title,
                                                   TitleOf(upcomingSong'))]}
                /\ Entry(log', "setTimeout") = PairKey(currentSong[1].title,
                                                       TitleOf(upcomingSong'))
                /\ UpdateFrame ]_vars
    /\ [][UpdateNoChange]_vars

\* C10 amended: the new timer is started only if the event's upcoming track
\* is present; if it is absent the stored upcoming becomes absent, the
\* pending timer is cancelled and no timer is started.
C10_UpdateReschedulesIfPresent ==
    /\ [][ (/\ SameTrackUpdate(log', currentSong)
            /\ TitleOf(Entry(log', "UPDATE").upcomingSong) # TitleOf(upcomingSong))
             => /\ upcomingSong' = Entry(log', "UPDATE").upcomingSong
                /\ IF upcomingSong' # None
                   THEN /\ timers' = {[id |-> prefetchTimer',
                                       pairKey |-> PairKey(currentSong[1].title,
                                                           upcomingSong'[1].title)]}
                        /\ Count(log', "setTimeout") = 1
                        /\ Entry(log', "setTimeout")
                             = PairKey(currentSong[1].title, upcomingSong'[1].title)
                   ELSE /\ timers' = {}
                        /\ ~Has(log', "setTimeout")
                /\ UpdateFrame ]_vars
    /\ [][UpdateNoChange]_vars

\* a same-track UPDATE has just replaced the stored upcoming track by another
\* one, cancelling the pending timer of the old pair and starting the new one
C10_Witness ==
    /\ Has(log, "UPDATE")
    /\ Has(log, "clearTimeout")
    /\ Has(log, "setTimeout")
    /\ Entry(log, "clearTimeout") # {}
    /\ Entry(log, "setTimeout") \notin Entry(log, "clearTimeout")
    /\ ~Has(log, "Resume")
    /\ currentSong # None
    /\ upcomingSong = Entry(log, "UPDATE").upcomingSong
    /\ TitleOf(Entry(log, "UPDATE").currentSong) = TitleOf(currentSong)

\* C11: a RETURN_DATA event stores the payload's tracks, starts a prefetch
\* timer for current::upcoming exactly when both are present, publishes no
\* Resume, sends no announce request and leaves the lock and the awaited
\* announcements as they were.
C11_DataReturn ==
    [][ Has(log', "RETURN_DATA")
          => LET d == Entry(log', "RETURN_DATA")
             IN /\ currentSong' = d.currentSong
                /\ upcomingSong' = d.upcomingSong
                /\ Has(log', "setTimeout")
                     <=> (d.currentSong # None /\ d.upcomingSong # None)
                /\ Has(log', "setTimeout")
                     => /\ Count(log', "setTimeout") = 1
                        /\ Some(Entry(log', "setTimeout"))
                             = StoredPair(d.currentSong, d.upcomingSong)
                        /\ timers' = {[id |-> prefetchTimer',
                                       pairKey |-> Entry(log', "setTimeout")]}
                /\ ~Has(log', "setTimeout") => timers' = timers
                /\ ~Has(log', "Resume")
                /\ ~Has(log', "SONG_ABOUT_TO_END")
                /\ ~Has(log', "realPlay")
                /\ isLocked' = isLocked
                /\ resumeHandlers' = resumeHandlers
                /\ processedPairs' = processedPairs ]_vars

\* the initial data has just arrived while an announcement is awaited with
\* the lock engaged: the tracks are replaced, the prefetch is scheduled and
\* the lock is still engaged
C11_Witness ==
    /\ Has(log, "RETURN_DATA")
    /\ Has(log, "setTimeout")
    /\ isLocked
    /\ resumeHandlers > 0
    /\ currentSong = Entry(log, "RETURN_DATA").currentSong

\* C12: a prefetch timer is started only with both stored tracks present, and
\* a PREWARM_RJ request is sent only with both stored tracks present.
C12_NoPrefetchWithoutTracks ==
    /\ [][ Has(log', "setTimeout")
             => (currentSong' # None /\ upcomingSong' # None) ]_vars
    /\ [][ Has(log', "PREWARM_RJ")
             => /\ currentSong # None /\ upcomingSong # None
                /\ currentSong' # None /\ upcomingSong' # None ]_vars

\* a first track has just been stored with no upcoming track: Resume was
\* published, schedulePrefetch ran and started no timer
C12_Witness ==
    /\ Has(log, "TRIGGER")
    /\ Has(log, "Resume")
    /\ currentSong # None
    /\ upcomingSong = None
    /\ ~Has(log, "setTimeout")
    /\ timers = {}

\* a turn in which handleSongChange ran: a TRIGGER, or an UPDATE whose current
\* title is not the stored one
SongChangeHandled(lg, cur) ==
    \/ Has(lg, "TRIGGER")
    \/ (Has(lg, "UPDATE") /\ ~SameTrackUpdate(lg, cur))

NextInQueue(q) ==
    IF q.store # "ok" THEN None
    ELSE LET all == q.items \o q.automixItems
             flagged == { i \in 1..Len(all) : all[i].selected }
         IN IF flagged = {} THEN None
            ELSE LET first == CHOOSE i \in flagged : \A j \in flagged : i <= j
                 IN IF first = Len(all) THEN None
                    ELSE Some([title |-> IF all[first + 1].title = EmptyText
                                         THEN UnknownTitle
                                         ELSE all[first + 1].title,
                               artist |-> IF all[first + 1].artist = EmptyText
                                          THEN UnknownArtist
                                          ELSE all[first + 1].artist])

\* C14: on every queue state, the upcoming read that answers a data request
\* (either script) returns NextInQueue of the queue, and no exception leaves
\* the read.
C14_ReadUpcoming ==
    /\ [][ Has(log', "RETURN_DATA")
             => Entry(log', "RETURN_DATA").upcomingSong = NextInQueue(queue) ]_vars
    /\ [][ Stim(log') = "REQUEST_STATUS"
             => /\ ~Has(log', "uncaught")
                /\ Has(log', "RETURN_STATUS")
                /\ Entry(log', "RETURN_STATUS").upcoming = NextInQueue(queue) ]_vars

\* C15: every SONG_ABOUT_TO_END request carries the title and artist of the
\* track stored before the song change and the title and artist of the track
\* stored by it.
C15_AnnouncePayload ==
    [][ Has(log', "SONG_ABOUT_TO_END")
          => LET m == Entry(log', "SONG_ABOUT_TO_END")
             IN /\ currentSong # None
                /\ currentSong' # None
                /\ m.currentSongTitle = currentSong[1].title
                /\ m.currentSongArtist = currentSong[1].artist
                /\ m.upcomingSongTitle = currentSong'[1].title
                /\ m.upcomingSongArtist = currentSong'[1].artist ]_vars

\* the lock is engaged exactly while an announce request is awaited
LockIffPending == isLocked <=> resumeHandlers > 0

\* one completion signal completes one announcement: with two or more
\* awaited, one is still awaited afterwards and the lock must stay engaged
LockHeldWhileOneRemains ==
    (Stim(log') = "TTS_ENDED" /\ resumeHandlers > 1) => isLocked'

\* C16: in every state the lock is engaged exactly while an announcement is
\* pending, and it is not released by a completion signal while another
\* announcement is still pending.
C16_LockInvariant ==
    /\ []LockIffPending
    /\ [][LockHeldWhileOneRemains]_vars

\* C17: a PREWARM_RJ request is sent only by a firing timer whose pair key is
\* the stored current::upcoming pair, and carries that key and the stored
\* titles; a timer that fires with another pair stored (or none) sends
\* nothing and changes nothing.
C17_StaleContext ==
    /\ [][ Has(log', "PREWARM_RJ")
             => /\ Stim(log') = "timerFire"
                /\ StoredPair(currentSong, upcomingSong) = Some(log'[1].data)
                /\ currentSong' = currentSong
                /\ upcomingSong' = upcomingSong
                /\ Count(log', "PREWARM_RJ") = 1
                /\ LET m == Entry(log', "PREWARM_RJ")
                   IN /\ m.pairKey = log'[1].data
                      /\ m.oldSongTitle = currentSong[1].title
                      /\ m.newSongTitle = upcomingSong[1].title
                      /\ PairKey(m.oldSongTitle, m.newSongTitle) = log'[1].data ]_vars
    /\ [][ (/\ Stim(log') = "timerFire"
            /\ StoredPair(currentSong, upcomingSong) # Some(log'[1].data))
             => /\ Len(log') = 1
                /\ processedPairs' = processedPairs
                /\ prewarmCount' = prewarmCount
                /\ currentSong' = currentSong
                /\ upcomingSong' = upcomingSong ]_vars

\* the timer of a pair has just fired with another pair stored (the tracks
\* were replaced while it was pending): nothing was sent
C17_Witness ==
    /\ Stim(log) = "timerFire"
    /\ StoredPair(currentSong, upcomingSong) # None
    /\ StoredPair(currentSong, upcomingSong) # Some(log[1].data)
    /\ log[1].data \notin processedPairs
    /\ Len(log) = 1

\* C18: an assignment of null, or of metadata with an empty title, does not
\* engage the lock, does not pause, publishes no TRIGGER and leaves the last
\* known title as it is.
C18_EmptyTitleInert ==
    [][ (/\ Stim(log') = "setMetadata"
         /\ (metadata' = None \/ metadata'[1].title = EmptyText))
          => /\ isLocked' = isLocked
             /\ ~Has(log', "pause")
             /\ ~Has(log', "TRIGGER")
             /\ currentTitle' = currentTitle ]_vars

\* no UPDATE with the title of this TRIGGER was published ahead of it
NoUpdateAheadOfTrigger ==
    Has(log', "TRIGGER")
      => earlyUpdate # Some(Entry(log', "TRIGGER").currentSong[1].title)

\* the Coordinator takes the other-title path of UPDATE only for a title whose
\* TRIGGER was not published
OtherTitlePathOnlyWithoutTrigger ==
    (Has(log', "UPDATE") /\ ~SameTrackUpdate(log', currentSong))
      => lastTrigger # Some(Entry(log', "UPDATE").currentSong[1].title)

\* C19: for every track change to a title T no UPDATE carrying T reaches the
\* Coordinator before the TRIGGER for T, and an UPDATE whose current title is
\* not the stored one is handled only when the TRIGGER for that title was not
\* published.
C19_TriggerBeforeUpdate ==
    /\ [][NoUpdateAheadOfTrigger]_vars
    /\ [][OtherTitlePathOnlyWithoutTrigger]_vars

\* the Coordinator's part of a state record
CoordinatorOf(s) ==
    << s.currentSong, s.upcomingSong, s.processedPairs, s.isEnabled,
       s.prefetchTimer, s.resumeHandlers, s.timers, s.safetyTimers,
       s.prewarmCount >>

\* the entries of a log from position i on
LogFrom(lg, i) == SubSeq(lg, i, Len(lg))

\* C20: a turn in which an UPDATE with another current title than the stored
\* one is handled leaves the Coordinator in the state, and emits the messages
\* (announce request, Resume, timer calls), that the TRIGGER listener gives
\* for the same payload from the same state.
C20_UpdateAsTrigger ==
    [][ (Has(log', "UPDATE") /\ ~SameTrackUpdate(log', currentSong))
          => LET d == Entry(log', "UPDATE")
                 r == dispatchEvent(Cur, "TRIGGER",
                                    [currentSong |-> d.currentSong,
                                     upcomingSong |-> d.upcomingSong])
             IN /\ CoordinatorOf(r)
                     = << currentSong', upcomingSong', processedPairs', isEnabled',
                          prefetchTimer', resumeHandlers', timers', safetyTimers',
                          prewarmCount' >>
                /\ log'[2].ev = "UPDATE"
                /\ r.log[1].data = log'[2].data
                /\ LogFrom(r.log, 2) = LogFrom(log', 3) ]_vars

\* an UPDATE with another current title has just been handled with a track
\* stored: the announce request for stored::new is out and the new tracks are
\* stored
C20_Witness ==
    /\ Stim(log) = "poll"
    /\ Has(log, "UPDATE")
    /\ Count(log, "SONG_ABOUT_TO_END") = 1
    /\ ~Has(log, "Resume")
    /\ currentSong = Entry(log, "UPDATE").currentSong
    /\ upcomingSong = Entry(log, "UPDATE").upcomingSong
    /\ resumeHandlers > 0

\* the turns that never publish Resume: an intercepted play() call, a firing
\* prefetch or safety timer, a data request, a settings change, a host move
QuietTurns ==
    { "play", "timerFire", "safetyTimer", "REQUEST_DATA", "storageChanged",
      "hostQueue", "hostVideo" }

\* C21: in every step in which isLocked goes from true to false a Resume was
\* published; an intercepted play() call, a timer firing, a data request, a
\* settings change and a host move publish no Resume and leave the lock as it
\* is; a metadata assignment or a poll tick that publishes no Resume does not
\* take the lock from true to false.
C21_OnlyResumeClears ==
    /\ [][ (isLocked /\ ~isLocked') => Has(log', "Resume") ]_vars
    /\ [][ Stim(log') \in QuietTurns
             => (~Has(log', "Resume") /\ isLocked' = isLocked) ]_vars
    /\ [][ (Stim(log') \in {"setMetadata", "poll"} /\ ~Has(log', "Resume"))
             => (isLocked => isLocked') ]_vars

\* a poll tick has just published an UPDATE with the lock engaged; the
\* Coordinator answered with Resume and the lock is released
C21_Witness ==
    /\ Stim(log) = "poll"
    /\ Has(log, "UPDATE")
    /\ Entry(log, "UPDATE").isLocked
    /\ Has(log, "Resume")
    /\ ~isLocked

\* the position in a log of the TRIGGER or UPDATE delivered in that turn
EventAt(lg) ==
    CHOOSE i \in 1..Len(lg) : lg[i].ev \in {"TRIGGER", "UPDATE"}

\* C22: while isEnabled is false, a TRIGGER, or an UPDATE whose current title
\* is not the stored one, is answered by exactly one Resume, published
\* directly after the event is delivered and followed by nothing but the
\* Trap's restart of the playback; no announce request is sent, no prefetch
\* timer is started or cancelled, no completion handler or safety timeout is
\* added, and the stored tracks and processedPairs are unchanged.
C22_DisabledMode ==
    [][ (~isEnabled /\ SongChangeHandled(log', currentSong))
          => /\ Count(log', "Resume") = 1
             /\ LogFrom(log', EventAt(log') + 1)
                  \in { << Eff("Resume", None) >>,
                        << Eff("Resume", None), Eff("realPlay", None) >> }
             /\ ~Has(log', "SONG_ABOUT_TO_END")
             /\ ~Has(log', "setTimeout")
             /\ ~Has(log', "clearTimeout")
             /\ ~isLocked'
             /\ UNCHANGED << currentSong, upcomingSong, processedPairs,
                             prefetchTimer, timers, resumeHandlers,
                             safetyTimers, prewarmCount, isEnabled >> ]_vars

\* a TRIGGER for another title than the stored one has just been handled
\* with the extension disabled: Resume was published, the stored track is
\* still the old one and its prefetch timer is still pending
C22_Witness ==
    /\ ~isEnabled
    /\ Has(log, "TRIGGER")
    /\ Has(log, "Resume")
    /\ ~Has(log, "SONG_ABOUT_TO_END")
    /\ currentSong # None
    /\ currentSong[1].title # Entry(log, "TRIGGER").currentSong[1].title
    /\ timers # {}
    /\ ~isLocked

\* the Resume events the global listener publishes on a completion signal
FallbackResumes == IF video = "paused" THEN 1 ELSE 0

\* C23: a completion signal completes every awaited announcement, however
\* many are awaited: each awaited handler publishes one Resume (besides the
\* Resume of the global listener when the media element is paused) and none
\* is awaited afterwards; with none awaited, a completion signal publishes
\* no Resume but the global listener's.
C23_OneSignalCompletesAll ==
    /\ [][ Stim(log') = "TTS_ENDED"
             => /\ resumeHandlers' = 0
                /\ Count(log', "Resume") = resumeHandlers + FallbackResumes
                /\ ~Has(log', "SONG_ABOUT_TO_END") ]_vars
    /\ [][ (Stim(log') = "TTS_ENDED" /\ resumeHandlers > 0) => ~isLocked' ]_vars

\* one completion signal has just arrived with two announcements awaited and
\* the media element paused: Resume was published three times and nothing is
\* awaited any more
C23_Witness ==
    /\ Stim(log) = "TTS_ENDED"
    /\ Count(log, "Resume") = 3
    /\ resumeHandlers = 0
    /\ ~isLocked
    /\ video = "playing"

====
